---- MODULE Spec2Model ----
(***************************************************************************)
(* A model of suwurver.js: the flat-file JSON store (readJsonFile,         *)
(* writeJsonFile), the commits paginator (fetchAllCommits), the request    *)
(* handlers GET /api/commits, POST /api/votes, POST /api/sync and          *)
(* GET /auth/github, the rate limiters in front of them and the Logger.    *)
(*                                                                         *)
(* Every handler is an async function: it runs without interruption up to  *)
(* its next await and may be interleaved with other handlers there.  The   *)
(* awaits are fs.readFile, fs.writeFile and fetch.  fs.writeFile opens the *)
(* file with flag 'w', which truncates it, and writes the data afterwards, *)
(* so a write is two steps and the file is empty in between.               *)
(*                                                                         *)
(* Strings that the code inspects (messages, author names, search terms)   *)
(* are sequences of one-character strings; identifiers that the code only  *)
(* compares with === are TLA+ strings.  The filesystem is assumed to       *)
(* serve every read of an existing file and every write of the store; the  *)
(* only read errors are a missing file and text that JSON.parse rejects.   *)
(* The write of a log file may fail.                                       *)
(***************************************************************************)
EXTENDS Integers, Sequences, FiniteSets, TLC

(***************************************************************************)
(* Bounds of the model.                                                    *)
(***************************************************************************)
\* requests accepted in one behaviour
MaxRequests == 3
\* pages one sync may request before the model stops following "next"
MaxPages == 2
\* entries of an items document drawn by InitView
MaxItems == 3
\* entries of a ledger drawn by InitView
MaxVotes == 2
\* calls of Logger.log
MaxLogEntries == 4

\* the request handlers that may be in progress at once
Procs == {"h1", "h2", "h3"}

(***************************************************************************)
(* Text: sequences of one-character strings.                               *)
(***************************************************************************)
UpperCase == <<"A","B","C","D","E","F","G","H","I","J","K","L","M",
               "N","O","P","Q","R","S","T","U","V","W","X","Y","Z">>
LowerCase == <<"a","b","c","d","e","f","g","h","i","j","k","l","m",
               "n","o","p","q","r","s","t","u","v","w","x","y","z">>

\* String.prototype.toLowerCase, one character
LowerChar(c) ==
    IF \E i \in 1..26 : UpperCase[i] = c
    THEN LowerCase[CHOOSE i \in 1..26 : UpperCase[i] = c]
    ELSE c

\* String.prototype.toLowerCase
toLowerCase(s) == [i \in 1..Len(s) |-> LowerChar(s[i])]

\* String.prototype.includes
includes(s, t) ==
    \E i \in 0..(Len(s) - Len(t)) : SubSeq(s, i + 1, i + Len(t)) = t

\* String.prototype.startsWith
startsWith(s, t) == Len(s) >= Len(t) /\ SubSeq(s, 1, Len(t)) = t

\* the literals of fetchAllCommits' filter
Dishpit == <<"D","i","s","h","p","i","t">>
Merge == <<"M","e","r","g","e">>

(***************************************************************************)
(* Files and JSON.  A file's text is a sequence of tokens: "[" , one token *)
(* per array element, "]".  JSON.parse rejects any text that is not a      *)
(* complete array, the empty text of a truncated file included.            *)
(***************************************************************************)
COMMITS_FILE == "commits.json"
VOTES_FILE == "votes.json"
FileNames == {COMMITS_FILE, VOTES_FILE}

TokOpen == [t |-> "["]
TokClose == [t |-> "]"]
TokObj(o) == [t |-> "{}", v |-> o]

\* JSON.stringify of an array of objects
JSONstringify(doc) ==
    <<TokOpen>> \o [i \in 1..Len(doc) |-> TokObj(doc[i])] \o <<TokClose>>

\* JSON.parse: [ok, value]; ok = FALSE stands for the SyntaxError it throws
JSONparse(text) ==
    IF /\ Len(text) >= 2
       /\ text[1] = TokOpen
       /\ text[Len(text)] = TokClose
       /\ \A i \in 2..(Len(text) - 1) : text[i].t = "{}"
    THEN [ok |-> TRUE, value |-> [i \in 1..(Len(text) - 2) |-> text[i + 1].v]]
    ELSE [ok |-> FALSE, value |-> <<>>]

NoFile == [exists |-> FALSE, text |-> <<>>]
FileOf(text) == [exists |-> TRUE, text |-> text]

VARIABLES
    files,      \* the two documents on disk: FileNames -> [exists, text]
    pc,         \* where each handler is suspended, "idle" when it has no request
    req,        \* the request each handler is serving
    loc,        \* the local variables of each handler
    res,        \* the response each handler sent last
    started,    \* number of requests accepted so far
    acked,      \* the votes answered with {success: true}, in order
    written,    \* history: per file, the document the last writeJsonFile call
                \* put there, if nothing has written to the file since
    hits,       \* per limiter and client address, the requests counted in the
                \* limiter's current window
    origin,     \* per handler, the address of the request it serves and whether
                \* the general limiter's current window counted that request
    sent,       \* history: per limiter and address, the requests sent to a
                \* route the limiter covers, in its current window
    blocked,    \* history: of those, the ones the general limiter rejected
    good        \* history: per address, the requests sent in the general
                \* limiter's current window and answered with a status below 400

limiterVars == <<hits, origin, sent, blocked, good>>

VARIABLES
    logs,       \* logger.logs, the buffer of entries not yet saved
    logFiles,   \* the log files written so far, each the sequence of its lines
    saving,     \* the call of saveLogs under way: where it is suspended, and the
                \* text it handed to fs.writeFile
    logged      \* history: the number of calls of Logger.log so far

loggerVars == <<logs, logFiles, saving, logged>>
vars == <<files, pc, req, loc, res, started, acked, written, limiterVars, loggerVars>>

(***************************************************************************)
(* The values requests and upstream responses are drawn from.              *)
(***************************************************************************)
Ips == {"10.0.0.1"}
CommitIds == {"c1", "c2"}
UserIds == {"u1", "u2"}

\* req.body of POST /api/votes: a property is absent (undefined) or a string,
\* the empty string included
VoteBodies ==
    {b \in UNION {[d -> CommitIds \cup UserIds \cup {""}] : d \in SUBSET {"commitId", "userId"}} :
        /\ "commitId" \in DOMAIN b => b.commitId \in CommitIds \cup {""}
        /\ "userId" \in DOMAIN b => b.userId \in UserIds \cup {""}}
FewVoteBodies ==
    {[commitId |-> "c1", userId |-> "u1"], [commitId |-> "c2", userId |-> "u1"],
     [commitId |-> "c1"]}

\* req.body of POST /api/sync
SyncBodies == {<<>>, [token |-> ""], [token |-> "gho_1"]}
FewSyncBodies == {<<>>, [token |-> "gho_1"]}

\* req.query of GET /api/commits
SearchTerms == {<<>>, <<"f","i">>, <<"F","I","X">>, <<"a","l">>, <<"b","o","b">>}
Queries == {<<>>} \cup {[search |-> t] : t \in SearchTerms}
FewQueries == {<<>>, [search |-> <<"F","I","X">>]}

\* records of the GitHub commits API
RawCommit(sha, name, message) ==
    [sha |-> sha,
     commit |-> [author |-> [name |-> name, date |-> "2024-01-01T00:00:00Z"],
                 message |-> message],
     html_url |-> "https://github.com/DishpitDev/Slopify/commit/" \o sha]

Raw1 == RawCommit("c1", <<"A","l">>, <<"F","i","x">>)
Raw2 == RawCommit("c2", <<"B","o">>, <<"m","e","r","g","e">>)
Raw3 == RawCommit("c3", Dishpit, <<"F","i","x">>)
Raw4 == RawCommit("c4", <<"A","l">>, Merge \o <<" ","a">>)

\* the bodies of upstream pages
PageBodies == {<<>>, <<Raw1>>, <<Raw2, Raw3>>, <<Raw4, Raw1>>}

\* the Link header of a response: absent (headers.get returns null) or its text,
\* here the set of rel values it lists
NoLink == [present |-> FALSE, rels |-> {}]
LinkPrev == [present |-> TRUE, rels |-> {"prev", "first"}]
LinkNext == [present |-> TRUE, rels |-> {"next", "last"}]
LinkHeaders == {NoLink, LinkPrev, LinkNext}

\* what fetch may resolve to for one page
FailedResponse == [ok |-> FALSE, body |-> <<>>, link |-> NoLink]
Responses ==
    {FailedResponse} \cup {[ok |-> TRUE, body |-> b, link |-> l] : b \in PageBodies, l \in LinkHeaders}
FewResponses ==
    {FailedResponse} \cup {[ok |-> TRUE, body |-> <<Raw1>>, link |-> l] : l \in {NoLink, LinkNext}}

RECURSIVE SeqsUpTo(_, _)
\* the sequences over S of length at most n
SeqsUpTo(S, n) ==
    IF n = 0 THEN {<<>>}
    ELSE LET shorter == SeqsUpTo(S, n - 1)
         IN  shorter \cup {Append(s, x) : s \in {t \in shorter : Len(t) = n - 1}, x \in S}

\* the handler that serves the requests when they arrive one after another
SeqProc == "h1"
PairOfProcs == {"h1", "h2"}

(***************************************************************************)
(* fetchAllCommits, lines 201-214: the filter and the map.                 *)
(***************************************************************************)
\* a slip in line 204: the prefix is compared without regard to letter case
KeepCommitIgnoringCase(c) ==
    /\ c.commit.author.name # Dishpit
    /\ ~startsWith(toLowerCase(c.commit.message), toLowerCase(Merge))

\* the predicate of the filter, lines 202-205
KeepCommit(c) ==
    /\ c.commit.author.name # Dishpit
    /\ ~startsWith(c.commit.message, Merge)

\* the object built by the map, lines 208-214
CanonicalItem(c) ==
    [id |-> c.sha,
     message |-> c.commit.message,
     author |-> c.commit.author.name,
     date |-> c.commit.author.date,
     link |-> c.html_url]

\* lines 201-214 applied to the accumulated commits
NormalizeCommits(commits) ==
    LET filteredCommits == SelectSeq(commits, KeepCommit)
    IN  [i \in 1..Len(filteredCommits) |-> CanonicalItem(filteredCommits[i])]

\* a slip in line 197: any Link header counts as a next page
HasAnyLink(linkHeader) == linkHeader.present

\* line 197: linkHeader && linkHeader.includes('rel="next"'), as a truth value
HasNextPage(linkHeader) == linkHeader.present /\ "next" \in linkHeader.rels

(***************************************************************************)
(* GET /api/commits, lines 278-291: enrich, sort, filter.                  *)
(***************************************************************************)
\* a slip in line 280: voters are counted instead of votes
UpvotesDistinctVoters(commit, votes) ==
    Cardinality({votes[i].userId : i \in {j \in 1..Len(votes) : votes[j].commitId = commit.id}})

\* line 280: votes.filter(vote => vote.commitId === commit.id).length
Upvotes(commit, votes) ==
    Cardinality({i \in 1..Len(votes) : votes[i].commitId = commit.id})

\* lines 278-281: {...commit, upvotes}
Enrich(commit, votes) ==
    [k \in DOMAIN commit \cup {"upvotes"} |->
        IF k = "upvotes" THEN Upvotes(commit, votes) ELSE commit[k]]

\* the comparator of line 283
CompareUpvotes(a, b) == b.upvotes - a.upvotes

\* an unstable sort: x goes before the elements it ties with
InsertPointBeforeEqual(s, x) ==
    LET later == {i \in 1..Len(s) : CompareUpvotes(x, s[i]) <= 0}
    IN  IF later = {} THEN Len(s) + 1
        ELSE CHOOSE i \in later : \A j \in later : i <= j

\* where x goes in the sorted sequence s: after every element it does not sort
\* strictly before, which is what makes the sort stable
InsertPoint(s, x) ==
    LET later == {i \in 1..Len(s) : CompareUpvotes(x, s[i]) < 0}
    IN  IF later = {} THEN Len(s) + 1
        ELSE CHOOSE i \in later : \A j \in later : i <= j

RECURSIVE SortByUpvotes(_)
\* Array.prototype.sort with CompareUpvotes; the sort is stable (ECMAScript 2019,
\* which the optional chaining of lines 18 and 285 presupposes)
SortByUpvotes(s) ==
    IF s = <<>> THEN <<>>
    ELSE LET front == SortByUpvotes(SubSeq(s, 1, Len(s) - 1))
             x == s[Len(s)]
             at == InsertPoint(front, x)
         IN  SubSeq(front, 1, at - 1) \o <<x>> \o SubSeq(front, at, Len(front))

\* line 285: req.query.search?.toLowerCase(); [defined, text]
SearchOf(query) ==
    IF "search" \in DOMAIN query
    THEN [defined |-> TRUE, text |-> toLowerCase(query.search)]
    ELSE [defined |-> FALSE, text |-> <<>>]

\* a slip in lines 288-289: the arguments of includes are exchanged
MatchesSearchReversed(c, search) ==
    \/ includes(search, toLowerCase(c.message))
    \/ includes(search, toLowerCase(c.author))

\* a slip in lines 288-289: the author is not searched
MatchesSearchMessageOnly(c, search) ==
    includes(toLowerCase(c.message), search)

\* the predicate of the filter, lines 288-289
MatchesSearch(c, search) ==
    \/ includes(toLowerCase(c.message), search)
    \/ includes(toLowerCase(c.author), search)

\* lines 278-291: the array the handler sends
RankedList(commits, votes, query) ==
    LET enrichedCommits == SortByUpvotes([i \in 1..Len(commits) |-> Enrich(commits[i], votes)])
        search == SearchOf(query)
        Hit(c) == MatchesSearch(c, search.text)
    IN  IF search.defined /\ search.text # <<>>
        THEN SelectSeq(enrichedCommits, Hit)
        ELSE enrichedCommits

(***************************************************************************)
(* The store, lines 218-237, as operations on the files.                   *)
(***************************************************************************)
\* readJsonFile's defaultValue = [] (line 218); no caller passes another
DefaultValue == <<>>

\* fs.writeFile, first half: open with flag 'w' creates or truncates the file
FsOpenTruncate(fs, f) == [fs EXCEPT ![f] = FileOf(<<>>)]

\* fs.writeFile, second half: the data is in the file
FsWriteData(fs, f, text) == [fs EXCEPT ![f] = FileOf(text)]

\* lines 220-221: fs.readFile then JSON.parse; ok = FALSE when either throws
ReadAndParse(fs, f) ==
    IF fs[f].exists THEN JSONparse(fs[f].text) ELSE [ok |-> FALSE, value |-> <<>>]

\* the document readJsonFile resolves to for file f in the state fs of the disk
DocumentOf(fs, f) ==
    IF ReadAndParse(fs, f).ok THEN ReadAndParse(fs, f).value ELSE DefaultValue

(***************************************************************************)
(* Responses (res.status(...).json(...)) and handler locals.               *)
(***************************************************************************)
NoResponse == [status |-> 0, error |-> "", success |-> FALSE, count |-> 0, list |-> <<>>]
ErrorResponse(status, error) == [NoResponse EXCEPT !.status = status, !.error = error]
\* line 330
VoteRecorded == [NoResponse EXCEPT !.status = 200, !.success = TRUE]
\* line 349
SyncCompleted(commits) ==
    [NoResponse EXCEPT !.status = 200, !.success = TRUE, !.count = Len(commits)]
\* line 298
ListResponse(filtered) == [NoResponse EXCEPT !.status = 200, !.list = filtered]

NoRequest == [route |-> "none"]

\* no writeJsonFile call stands as the last write of a file
NoWrite == [has |-> FALSE, doc |-> <<>>]

\* the locals of a handler that has just been entered; snap, log, old and rd
\* are history: the disk when the request arrived, the page exchanges of the
\* sync, the file a writeJsonFile call truncated, and of the last
\* readJsonFile call what it overlapped, what it returned and what had been
\* written to the file it read
FreshLocals(fs) ==
    [file |-> "", data |-> <<>>, commits |-> <<>>, page |-> 0,
     log |-> <<>>, snap |-> fs, old |-> NoFile,
     rd |-> [overlap |-> FALSE, atomic |-> TRUE, value |-> <<>>, wrote |-> NoWrite]]

\* a slip in lines 308 and 339: the test is (x === undefined) instead of (!x)
FalsyOnlyUndefined(obj, key) == key \notin DOMAIN obj

\* a property of req.body / req.query that is undefined or the empty string
Falsy(obj, key) == key \notin DOMAIN obj \/ obj[key] = ""

\* res.status(..).json(..): the handler returns
Respond(p, l, response) ==
    /\ pc' = [pc EXCEPT ![p] = "idle"]
    /\ loc' = [loc EXCEPT ![p] = l]
    /\ res' = [res EXCEPT ![p] = response]

\* the handler suspends at its next await
Suspend(p, l, at) ==
    /\ pc' = [pc EXCEPT ![p] = at]
    /\ loc' = [loc EXCEPT ![p] = l]
    /\ UNCHANGED res

(***************************************************************************)
(* POST /api/votes, lines 305-335.                                         *)
(***************************************************************************)
\* a slip in line 316: the voter is not compared
AlreadyVotedSameCommit(votes, commitId, userId) ==
    \E i \in 1..Len(votes) : votes[i].commitId = commitId

\* a slip in line 316: the voter of the entry is compared with the item id
AlreadyVotedWrongField(votes, commitId, userId) ==
    \E i \in 1..Len(votes) : votes[i].commitId = commitId /\ votes[i].userId = commitId

\* line 316: votes.some(vote => vote.commitId === commitId && vote.userId === userId)
AlreadyVoted(votes, commitId, userId) ==
    \E i \in 1..Len(votes) : votes[i].commitId = commitId /\ votes[i].userId = userId

\* lines 321-326; the timestamp is not modelled
NewVote(commitId, userId, ip) == [commitId |-> commitId, userId |-> userId, ip |-> ip]

\* lines 306-314: the handler up to its first await
PostVotes(p, body, ip) ==
    /\ pc[p] = "idle"
    /\ started < MaxRequests
    /\ started' = started + 1
    /\ req' = [req EXCEPT ![p] = [route |-> "votes", body |-> body, ip |-> ip]]
    /\ IF Falsy(body, "commitId") \/ Falsy(body, "userId")
       THEN Respond(p, FreshLocals(files), ErrorResponse(400, "Missing required fields"))
       ELSE /\ pc' = [pc EXCEPT ![p] = "readFile"]
            /\ loc' = [loc EXCEPT ![p] = [FreshLocals(files) EXCEPT !.file = VOTES_FILE]]
            /\ res' = [res EXCEPT ![p] = NoResponse]
    /\ UNCHANGED <<files, acked>>

\* lines 316-328: from the return of readJsonFile to the await of writeJsonFile
VotesAfterRead(p, l, votes) ==
    LET commitId == req[p].body.commitId
        userId == req[p].body.userId
    IN  /\ IF AlreadyVoted(votes, commitId, userId)
           THEN Respond(p, l, ErrorResponse(400, "Already voted"))
           ELSE Suspend(p, [l EXCEPT !.file = VOTES_FILE,
                                     !.data = Append(votes, NewVote(commitId, userId, req[p].ip))],
                        "writeOpen")
        /\ UNCHANGED acked

\* lines 329-330: after writeJsonFile has returned
VotesAfterWrite(p, l) ==
    /\ Respond(p, l, VoteRecorded)
    /\ acked' = acked \cup {l.data[Len(l.data)]}

(***************************************************************************)
(* GET /api/commits, lines 273-303.                                        *)
(***************************************************************************)
\* lines 274-275: the handler up to its first await
GetCommits(p, query) ==
    /\ pc[p] = "idle"
    /\ started < MaxRequests
    /\ started' = started + 1
    /\ req' = [req EXCEPT ![p] = [route |-> "commits", query |-> query]]
    /\ pc' = [pc EXCEPT ![p] = "readFile"]
    /\ loc' = [loc EXCEPT ![p] = [FreshLocals(files) EXCEPT !.file = COMMITS_FILE]]
    /\ res' = [res EXCEPT ![p] = NoResponse]
    /\ UNCHANGED <<files, acked>>

\* line 276 after readJsonFile(COMMITS_FILE) has returned, lines 278-298 after
\* readJsonFile(VOTES_FILE) has
CommitsAfterRead(p, l, value) ==
    /\ IF l.file = COMMITS_FILE
       THEN Suspend(p, [l EXCEPT !.commits = value, !.file = VOTES_FILE], "readFile")
       ELSE Respond(p, l, ListResponse(RankedList(l.commits, value, req[p].query)))
    /\ UNCHANGED acked

(***************************************************************************)
(* POST /api/sync, lines 337-354, and fetchAllCommits, lines 175-215.      *)
(***************************************************************************)
\* lines 338-346 and 176-181: up to the first await fetch
PostSync(p, body) ==
    /\ pc[p] = "idle"
    /\ started < MaxRequests
    /\ started' = started + 1
    /\ req' = [req EXCEPT ![p] = [route |-> "sync", body |-> body]]
    /\ IF Falsy(body, "token")
       THEN Respond(p, FreshLocals(files), ErrorResponse(401, "No token provided"))
       ELSE /\ pc' = [pc EXCEPT ![p] = "fetch"]
            /\ loc' = [loc EXCEPT ![p] = [FreshLocals(files) EXCEPT !.page = 1]]
            /\ res' = [res EXCEPT ![p] = NoResponse]
    /\ UNCHANGED <<files, acked>>

\* line 193: commits.push(...pageCommits)
PushPage(commits, pageCommits) == commits \o pageCommits

\* line 198: page++
NextPage(page) == page + 1

\* a slip: the pages fetched so far are persisted before the failure is answered
SyncFailedAfterPartialWrite(p, l) ==
    /\ Respond(p, l, ErrorResponse(500, "Sync failed"))
    /\ files' = FsWriteData(files, COMMITS_FILE, JSONstringify(NormalizeCommits(l.commits)))

\* a slip in lines 350-353: the catch logs the error and sends no response
SyncFailedSilently(p, l) ==
    /\ Suspend(p, l, "failed")
    /\ UNCHANGED files

\* lines 189 and 350-353: fetchAllCommits throws, the handler's catch answers
SyncFailed(p, l) ==
    /\ Respond(p, l, ErrorResponse(500, "Sync failed"))
    /\ UNCHANGED files

\* lines 188-199 and 201-214, 347: one fetch resolves.  The loop is followed
\* for MaxPages pages; a sync still told "next" after that stays suspended.
FetchPage(p, response) ==
    /\ pc[p] = "fetch"
    /\ loc[p].page <= MaxPages
    /\ LET l == [loc[p] EXCEPT !.log = Append(@, [page |-> loc[p].page, response |-> response])]
           commits == PushPage(l.commits, response.body)
       IN  IF ~response.ok
           THEN SyncFailed(p, l)
           ELSE /\ IF HasNextPage(response.link)
                   THEN Suspend(p, [l EXCEPT !.commits = commits, !.page = NextPage(@)], "fetch")
                   ELSE Suspend(p, [l EXCEPT !.commits = commits, !.page = NextPage(@),
                                             !.file = COMMITS_FILE,
                                             !.data = NormalizeCommits(commits)],
                                "writeOpen")
                /\ UNCHANGED files
    /\ UNCHANGED <<req, started, acked>>

\* lines 348-349: after writeJsonFile has returned
SyncAfterWrite(p, l) ==
    /\ Respond(p, l, SyncCompleted(l.data))
    /\ UNCHANGED acked

(***************************************************************************)
(* readJsonFile, lines 218-227, and writeJsonFile, lines 229-237, as the   *)
(* steps of the handler that called them.                                  *)
(***************************************************************************)
\* the caller's code after readJsonFile has returned value
AfterRead(p, l, value) ==
    IF req[p].route = "votes"
    THEN VotesAfterRead(p, l, value)
    ELSE CommitsAfterRead(p, l, value)

\* the caller's code after writeJsonFile has returned
AfterWrite(p, l) ==
    IF req[p].route = "votes"
    THEN VotesAfterWrite(p, l)
    ELSE SyncAfterWrite(p, l)

\* history: whether this read falls between the two halves of another
\* handler's writeJsonFile of the same file, and whether what it returns is
\* the document from before that write or the one from after it; with them
\* the value returned and the write that stood as the last one of the file
ReadOverlap(p, f, value) ==
    LET writers == {q \in Procs \ {p} : pc[q] = "writeDone" /\ loc[q].file = f}
    IN  [overlap |-> writers # {},
         atomic |-> \A q \in writers :
                       \/ value = DocumentOf([g \in FileNames |-> loc[q].old], f)
                       \/ value = loc[q].data,
         value |-> value,
         wrote |-> written[f]]

\* a slip: the return of line 222 is missing, every read goes on to line 224
ReadJsonFileAlwaysSeeding(p) ==
    /\ pc[p] = "readFile"
    /\ LET f == loc[p].file
           parsed == ReadAndParse(files, f)
           value == IF parsed.ok THEN parsed.value ELSE DefaultValue
           l == [loc[p] EXCEPT !.rd = ReadOverlap(p, f, value)]
       IN  Suspend(p, l, "seedOpen") /\ UNCHANGED acked
    /\ UNCHANGED <<files, req, started>>

\* lines 220-221: fs.readFile resolves or rejects, JSON.parse returns or throws
ReadJsonFile(p) ==
    /\ pc[p] = "readFile"
    /\ LET f == loc[p].file
           parsed == ReadAndParse(files, f)
           value == IF parsed.ok THEN parsed.value ELSE DefaultValue
           l == [loc[p] EXCEPT !.rd = ReadOverlap(p, f, value)]
       IN  IF parsed.ok
           THEN AfterRead(p, l, value)
           ELSE Suspend(p, l, "seedOpen") /\ UNCHANGED acked
    /\ UNCHANGED <<files, req, started>>

\* line 224, first half of fs.writeFile(filename, JSON.stringify(defaultValue))
ReadJsonFileSeedOpen(p) ==
    /\ pc[p] = "seedOpen"
    /\ files' = FsOpenTruncate(files, loc[p].file)
    /\ Suspend(p, loc[p], "seedWrite")
    /\ UNCHANGED <<req, started, acked>>

\* a slip in line 224: the default is returned but an empty text is written
ReadJsonFileSeedWriteEmpty(p) ==
    /\ pc[p] = "seedWrite"
    /\ files' = FsWriteData(files, loc[p].file, <<>>)
    /\ AfterRead(p, loc[p], DefaultValue)
    /\ UNCHANGED <<req, started>>

\* lines 224-225, second half: the default is on disk and is returned
ReadJsonFileSeedWrite(p) ==
    /\ pc[p] = "seedWrite"
    /\ files' = FsWriteData(files, loc[p].file, JSONstringify(DefaultValue))
    /\ AfterRead(p, loc[p], DefaultValue)
    /\ UNCHANGED <<req, started>>

\* line 231, first half of fs.writeFile(filename, JSON.stringify(data, null, 2))
WriteJsonFileOpen(p) ==
    /\ pc[p] = "writeOpen"
    /\ files' = FsOpenTruncate(files, loc[p].file)
    /\ Suspend(p, [loc[p] EXCEPT !.old = files[loc[p].file]], "writeDone")
    /\ UNCHANGED <<req, started, acked>>

\* a slip: the data is added to the document that was there instead of replacing it
WriteJsonFileDoneMerging(p) ==
    /\ pc[p] = "writeDone"
    /\ files' = FsWriteData(files, loc[p].file,
                            JSONstringify(DocumentOf([g \in FileNames |-> loc[p].old], loc[p].file)
                                          \o loc[p].data))
    /\ AfterWrite(p, loc[p])
    /\ UNCHANGED <<req, started>>

\* lines 231-232, second half: the document is on disk, writeJsonFile returns
WriteJsonFileDone(p) ==
    /\ pc[p] = "writeDone"
    /\ files' = FsWriteData(files, loc[p].file, JSONstringify(loc[p].data))
    /\ AfterWrite(p, loc[p])
    /\ UNCHANGED <<req, started>>

(***************************************************************************)
(* GET /auth/github, lines 240-270.                                        *)
(***************************************************************************)
\* req.query of GET /auth/github
AuthQueries == {<<>>, [code |-> "abc"]}

\* line 264: res.json(tokenData)
TokenResponse == [NoResponse EXCEPT !.status = 200]

\* lines 241-248: up to the await of the fetch to the OAuth provider
GetAuthGithub(p, query) ==
    /\ pc[p] = "idle"
    /\ started < MaxRequests
    /\ started' = started + 1
    /\ req' = [req EXCEPT ![p] = [route |-> "auth", query |-> query]]
    /\ IF Falsy(query, "code")
       THEN Respond(p, FreshLocals(files), ErrorResponse(400, "No code provided"))
       ELSE /\ pc' = [pc EXCEPT ![p] = "oauth"]
            /\ loc' = [loc EXCEPT ![p] = FreshLocals(files)]
            /\ res' = [res EXCEPT ![p] = NoResponse]
    /\ UNCHANGED <<files, acked>>

\* lines 258-269: the provider has answered
AuthAfterFetch(p, ok) ==
    /\ pc[p] = "oauth"
    /\ IF ok
       THEN Respond(p, loc[p], TokenResponse)
       ELSE Respond(p, loc[p], ErrorResponse(500, "Authentication failed"))
    /\ UNCHANGED <<files, req, started, acked>>

(***************************************************************************)
(* The rate limiters, lines 25-60, 305 and 337: rateLimit(options) of      *)
(* express-rate-limit with its memory store.  A limiter counts a request   *)
(* when the request reaches it and rejects it when the count exceeds max;  *)
(* with skipFailedRequests the count is taken back when the response       *)
(* finishes with a status of 400 or more, the limiter's own 429 included.  *)
(* The count of a key never goes below zero.  The end of a window is a     *)
(* step that empties the limiter's counts.                                 *)
(***************************************************************************)
\* req.ip of the clients
Origins == {"10.0.0.1", "10.0.0.2"}

\* the keys of rateLimiters
Limiters == {"global", "votes", "sync"}

\* lines 28, 39, 49
max == [global |-> 100, votes |-> 100, sync |-> 100]

\* a slip: line 31 is missing
skipFailedRequestsNowhere == [global |-> FALSE, votes |-> FALSE, sync |-> FALSE]

\* line 31; the option defaults to false
skipFailedRequests == [global |-> TRUE, votes |-> FALSE, sync |-> FALSE]

\* lines 32-35, 42-45, 52-55: the handler option
TooManyRequests(l) ==
    ErrorResponse(429, CASE l = "global" -> "Too many requests, please try again later."
                         [] l = "votes" -> "Vote limit exceeded, please try again later."
                         [] l = "sync" -> "Sync limit exceeded, please try again later.")

\* lines 305 and 337: the limiter in front of the route's handler
RouteLimiter(route) == IF route \in {"votes", "sync"} THEN route ELSE "none"

\* the requests of a client
RequestsOf(ip) ==
    {[route |-> "votes", body |-> b, ip |-> ip] :
            b \in {[commitId |-> "c1", userId |-> "u1"], [commitId |-> "c1"]}}
        \cup {[route |-> "commits", query |-> q] : q \in {<<>>}}
        \cup {[route |-> "sync", body |-> b] : b \in FewSyncBodies}
        \cup {[route |-> "auth", query |-> q] : q \in AuthQueries}

\* the handler of the route is entered
Enter(p, request) ==
    CASE request.route = "votes" -> PostVotes(p, request.body, request.ip)
      [] request.route = "commits" -> GetCommits(p, request.query)
      [] request.route = "sync" -> PostSync(p, request.body)
      [] request.route = "auth" -> GetAuthGithub(p, request.query)

\* the handler option of limiter l answers, no route handler is entered
RejectedBy(p, l, request) ==
    /\ pc[p] = "idle"
    /\ started < MaxRequests
    /\ started' = started + 1
    /\ req' = [req EXCEPT ![p] = request]
    /\ Respond(p, FreshLocals(files), TooManyRequests(l))
    /\ UNCHANGED <<files, acked>>

\* the store's increment and decrement of a key
Increment(h, l, ip) == [h EXCEPT ![l][ip] = @ + 1]
Decrement(h, l, ip) == [h EXCEPT ![l][ip] = IF @ > 0 THEN @ - 1 ELSE 0]

\* what the limiters that counted the request do when its response finishes
\* with this status
Finished(h, counted, ip, status) ==
    LET skipped == {l \in counted \cap Limiters : skipFailedRequests[l] /\ status >= 400}
    IN  [l \in Limiters |->
            IF l \in skipped THEN Decrement(h, l, ip)[l] ELSE h[l]]

\* a request of client ip passes the general limiter (line 60), then the
\* limiter of its route (lines 305, 337), then enters the handler
RateLimited(p, ip, request) ==
    LET l == RouteLimiter(request.route)
        atGlobal == Increment(hits, "global", ip)
        atRoute == IF l = "none" THEN atGlobal ELSE Increment(atGlobal, l, ip)
    IN  /\ IF atGlobal["global"][ip] > max["global"]
           THEN /\ RejectedBy(p, "global", request)
                /\ hits' = Finished(atGlobal, {"global"}, ip, 429)
                /\ blocked' = IF l = "none" THEN blocked
                              ELSE [blocked EXCEPT ![l][ip] = @ + 1]
           ELSE /\ IF l # "none" /\ atRoute[l][ip] > max[l]
                   THEN /\ RejectedBy(p, l, request)
                        /\ hits' = Finished(atRoute, {"global", l}, ip, 429)
                   ELSE /\ Enter(p, request)
                        /\ hits' = IF pc'[p] = "idle"
                                   THEN Finished(atRoute, {"global", l}, ip, res'[p].status)
                                   ELSE atRoute
                /\ UNCHANGED blocked
        /\ origin' = [origin EXCEPT ![p] = [ip |-> ip, counted |-> TRUE]]
        /\ sent' = [k \in Limiters |->
                      IF k \in {"global", l} THEN [sent[k] EXCEPT ![ip] = @ + 1] ELSE sent[k]]
        /\ good' = IF pc'[p] = "idle" /\ res'[p].status < 400
                   THEN [good EXCEPT ![ip] = @ + 1] ELSE good

\* windowMs has passed since the window of limiter l began (lines 27, 38, 48)
WindowEnds(l) ==
    /\ hits' = [hits EXCEPT ![l] = [ip \in Origins |-> 0]]
    /\ sent' = [sent EXCEPT ![l] = [ip \in Origins |-> 0]]
    /\ blocked' = IF l = "global" THEN blocked
                  ELSE [blocked EXCEPT ![l] = [ip \in Origins |-> 0]]
    /\ good' = IF l = "global" THEN [ip \in Origins |-> 0] ELSE good
    /\ origin' = IF l = "global"
                 THEN [p \in Procs |-> [origin[p] EXCEPT !.counted = FALSE]]
                 ELSE origin
    /\ UNCHANGED <<files, pc, req, loc, res, started, acked, written, loggerVars>>

\* the limiters after the first client has had these numbers of requests
\* counted, every one of them answered with success, and the second none
InitLimiters(counts) ==
    /\ hits \in {[l \in Limiters |-> [ip \in Origins |-> IF ip = "10.0.0.1" THEN c[l] ELSE 0]] :
                    c \in counts}
    /\ sent = hits
    /\ good = hits["global"]
    /\ blocked = [l \in {"votes", "sync"} |-> [ip \in Origins |-> 0]]
    /\ origin = [p \in Procs |-> [ip |-> "", counted |-> FALSE]]

(***************************************************************************)
(* The Logger, lines 79-141.  An entry is the line log() pushes; the n-th  *)
(* call of log() pushes the line of entry n.  The text handed to           *)
(* fs.writeFile is the lines of the buffer, joined, as they are when       *)
(* saveLogs is called.  One                                                *)
(* call of saveLogs is under way at a time (the timer fires every 15       *)
(* minutes), and every file gets a name of its own.                        *)
(***************************************************************************)
\* lines 72-77
LOG_LEVELS == {"INFO", "WARN", "ERROR", "DEBUG"}

\* lines 104-109 and 121: JSON.stringify(logEntry) + '\n', the text of the
\* object followed by a line feed
LogEntry(n, level) == <<[t |-> "{}", n |-> n, level |-> level], [t |-> "LF"]>>

RECURSIVE Join(_)
\* line 129: this.logs.join('')
Join(lines) ==
    IF lines = <<>> THEN <<>> ELSE Head(lines) \o Join(Tail(lines))

NotSaving == [at |-> "idle", text |-> <<>>]

\* lines 119-122: log(level, message, metadata)
Log(level) ==
    /\ logged < MaxLogEntries
    /\ logs' = Append(logs, LogEntry(logged + 1, level))
    /\ logged' = logged + 1
    /\ UNCHANGED <<logFiles, saving>>

\* lines 124-129: the timer of line 141 calls saveLogs; with an empty buffer it
\* returns at line 125, otherwise it suspends at await fs.writeFile
SaveLogs ==
    /\ saving.at = "idle"
    /\ logs # <<>>
    /\ logged < MaxLogEntries
    /\ saving' = [at |-> "writeFile", text |-> Join(logs)]
    /\ UNCHANGED <<logs, logFiles, logged>>

\* lines 129-131: fs.writeFile has resolved; this.logs = [] and the entry
\* 'Logs saved to ...' is logged
SaveLogsWritten ==
    /\ saving.at = "writeFile"
    /\ logFiles' = logFiles \cup {saving.text}
    /\ logs' = <<LogEntry(logged + 1, "INFO")>>
    /\ logged' = logged + 1
    /\ saving' = NotSaving

\* lines 132-134: fs.writeFile has rejected; the catch prints to the console
SaveLogsFailed ==
    /\ saving.at = "writeFile"
    /\ saving' = NotSaving
    /\ UNCHANGED <<logs, logFiles, logged>>

\* lines 81 and 138: new Logger()
InitLogger ==
    /\ logs = <<>>
    /\ logFiles = {}
    /\ saving = NotSaving
    /\ logged = 0

(***************************************************************************)
(* Specifications.                                                         *)
(***************************************************************************)
\* the entries of the documents InitView draws
Votes == {NewVote(c, u, ip) : c \in CommitIds \cup {"c9"}, u \in {"u1"}, ip \in Ips}
                \cup {NewVote("c1", "u2", ip) : ip \in Ips}
Items == {CanonicalItem(Raw1), CanonicalItem(Raw2),
          CanonicalItem(RawCommit("c5", <<"F","i","n","n">>, <<"D","o","c","s">>))}

\* files JSON.parse throws on: one cut to nothing, one cut after its first byte
\* (what a process stopped inside fs.writeFile leaves behind)
BrokenFiles == {FileOf(<<>>), FileOf(<<TokOpen>>)}

\* the server starts with the documents an earlier run left, or with none, or
\* with one of the broken files, and with every limiter's window empty
InitStore(voteDocs, itemDocs, broken) ==
    /\ files \in {fs \in [FileNames -> {NoFile} \cup broken
                                        \cup {FileOf(JSONstringify(d)) : d \in voteDocs \cup itemDocs}] :
                    /\ fs[VOTES_FILE] \in {NoFile} \cup broken
                                            \cup {FileOf(JSONstringify(d)) : d \in voteDocs}
                    /\ fs[COMMITS_FILE] \in {NoFile} \cup broken
                                              \cup {FileOf(JSONstringify(d)) : d \in itemDocs}}
    /\ pc = [p \in Procs |-> "idle"]
    /\ req = [p \in Procs |-> NoRequest]
    /\ loc = [p \in Procs |-> FreshLocals([f \in FileNames |-> NoFile])]
    /\ res = [p \in Procs |-> NoResponse]
    /\ started = 0
    /\ acked = {}
    /\ written = [f \in FileNames |-> NoWrite]

InitWith(voteDocs, itemDocs, broken) ==
    /\ InitStore(voteDocs, itemDocs, broken)
    /\ InitLimiters({[l \in Limiters |-> 0]})
    /\ InitLogger

\* history kept beside every step: a writeJsonFile call that returns stands as
\* the last write of its file, any other change of a file ends that
WrittenAfter ==
    [f \in FileNames |->
        LET done == {p \in Procs : /\ pc[p] = "writeDone" /\ pc'[p] # "writeDone"
                                   /\ loc[p].file = f}
        IN  IF done # {}
            THEN [has |-> TRUE, doc |-> loc[CHOOSE p \in done : TRUE].data]
            ELSE IF files'[f] # files[f] THEN NoWrite ELSE written[f]]

Written == written' = WrittenAfter

\* the limiters' windows are empty when the server starts, and the requests
\* of the specifications below are far fewer than max: there the limiters let
\* every request through and their counts are left out, as is the log
History == Written /\ UNCHANGED limiterVars /\ UNCHANGED loggerVars

\* the steps of a handler that is under way
Step(p, responses) ==
    \/ \E response \in responses : FetchPage(p, response)
    \/ ReadJsonFile(p)
    \/ ReadJsonFileSeedOpen(p)
    \/ ReadJsonFileSeedWrite(p)
    \/ WriteJsonFileOpen(p)
    \/ WriteJsonFileDone(p)

\* a request arrives
Arrive(p, voteBodies, queries, syncBodies) ==
    \/ \E body \in voteBodies, ip \in Ips : PostVotes(p, body, ip)
    \/ \E query \in queries : GetCommits(p, query)
    \/ \E body \in syncBodies : PostSync(p, body)

Init == InitWith({<<>>}, {<<>>}, {})

\* handlers interleave at their awaits
Next ==
    /\ \E p \in PairOfProcs :
          \/ Arrive(p, FewVoteBodies, FewQueries, FewSyncBodies)
          \/ Step(p, FewResponses)
    /\ History

Spec == Init /\ [][Next]_vars

\* vote requests alone, two of them under way at once
NextVotes ==
    /\ \E p \in PairOfProcs :
          \/ \E body \in FewVoteBodies, ip \in Ips : PostVotes(p, body, ip)
          \/ ReadJsonFile(p)
          \/ ReadJsonFileSeedOpen(p)
          \/ ReadJsonFileSeedWrite(p)
          \/ WriteJsonFileOpen(p)
          \/ WriteJsonFileDone(p)
    /\ History

SpecVotes == Init /\ [][NextVotes]_vars

\* the same with up to three vote requests under way at once
NextVotesOfThree ==
    /\ \E p \in Procs :
          \/ \E body \in FewVoteBodies, ip \in Ips : PostVotes(p, body, ip)
          \/ ReadJsonFile(p)
          \/ ReadJsonFileSeedOpen(p)
          \/ ReadJsonFileSeedWrite(p)
          \/ WriteJsonFileOpen(p)
          \/ WriteJsonFileDone(p)
    /\ History

SpecVotesOfThree == Init /\ [][NextVotesOfThree]_vars

\* sync requests alone, two of them under way at once.  Every fetch that was
\* issued is answered and every fs.writeFile completes: a step of a sync that
\* is under way is taken sooner or later.
SyncStep(p) ==
    /\ \/ \E response \in FewResponses : FetchPage(p, response)
       \/ WriteJsonFileOpen(p)
       \/ WriteJsonFileDone(p)
    /\ History

NextSync ==
    \/ \E p \in PairOfProcs : (\E body \in SyncBodies : PostSync(p, body)) /\ History
    \/ \E p \in PairOfProcs : SyncStep(p)

SpecSync == Init /\ [][NextSync]_vars /\ \A p \in PairOfProcs : WF_vars(SyncStep(p))

\* a step of the handler; when it sends the response, the general limiter
\* takes its count back if the response failed
HandlerStep(p) ==
    /\ \/ Step(p, {r \in FewResponses : ~HasNextPage(r.link)})
       \/ \E ok \in BOOLEAN : AuthAfterFetch(p, ok)
    /\ LET ip == origin[p].ip
       IN  IF pc'[p] = "idle"
           THEN /\ hits' = Finished(hits, {"global"}, ip, res'[p].status)
                /\ good' = IF res'[p].status < 400 /\ origin[p].counted
                           THEN [good EXCEPT ![ip] = @ + 1] ELSE good
           ELSE UNCHANGED <<hits, good>>
    /\ UNCHANGED <<origin, sent, blocked>>

\* the logger alone: calls of log() by the request handlers and the logging
\* middleware (lines 144-169), in any order with the steps of saveLogs
NextLog ==
    /\ \/ \E level \in LOG_LEVELS \ {"DEBUG"} : Log(level)
       \/ SaveLogs
       \/ SaveLogsWritten
       \/ SaveLogsFailed
    /\ UNCHANGED <<files, pc, req, loc, res, started, acked, written, limiterVars>>

SpecLog == Init /\ [][NextLog]_vars

\* requests from two clients through the limiters, handled one after another,
\* the first client being at or near the caps.  Each vote or sync request
\* counted went through the general limiter too.
NearMax ==
    {c \in [Limiters -> {0, 99, 100}] : c["votes"] + c["sync"] <= c["global"]}

InitLimit == InitStore({}, {}, {}) /\ InitLimiters(NearMax) /\ InitLogger

NextLimit ==
    \/ \E ip \in Origins : \E request \in RequestsOf(ip) :
          RateLimited(SeqProc, ip, request) /\ Written /\ UNCHANGED loggerVars
    \/ HandlerStep(SeqProc) /\ Written /\ UNCHANGED loggerVars
    \/ \E l \in Limiters : WindowEnds(l)

SpecLimit == InitLimit /\ [][NextLimit]_vars

\* requests handled one after another: one handler, entered again only after
\* it has responded
NextSeq ==
    /\ \/ Arrive(SeqProc, VoteBodies, Queries, SyncBodies)
       \/ Step(SeqProc, Responses)
    /\ History

SpecSeq == Init /\ [][NextSeq]_vars

\* the ranking view over every items document up to MaxItems entries and every
\* ledger up to MaxVotes entries, and over absent and broken files
InitView == InitWith(SeqsUpTo(Votes, MaxVotes), SeqsUpTo(Items, MaxItems), BrokenFiles)

NextView ==
    /\ \/ \E query \in Queries : GetCommits(SeqProc, query)
       \/ ReadJsonFile(SeqProc)
       \/ ReadJsonFileSeedOpen(SeqProc)
       \/ ReadJsonFileSeedWrite(SeqProc)
    /\ History

SpecView == InitView /\ [][NextView]_vars

(***************************************************************************)
(* Properties.  What a property says of a request is read off the handler  *)
(* that served it: req (the request), res (the answer), loc.snap (the disk *)
(* when it arrived) and loc.log (the pages it exchanged with upstream).    *)
(***************************************************************************)
\* the elements of a sequence
Range(s) == {s[i] : i \in 1..Len(s)}

\* the ledger and the items document a read of the disk fs yields
LedgerOf(fs) == DocumentOf(fs, VOTES_FILE)
ItemsOf(fs) == DocumentOf(fs, COMMITS_FILE)

\* handler p has answered a request to this route
Answered(p, route) == req[p].route = route /\ pc[p] = "idle"

\* the ledger holds a vote of this (item, voter) pair
PairInLedger(ledger, commitId, userId) ==
    \E v \in Range(ledger) : v.commitId = commitId /\ v.userId = userId

\* no two entries of the ledger have the same (item, voter) pair
NoDuplicatePairs(ledger) ==
    \A i, j \in 1..Len(ledger) :
        (ledger[i].commitId = ledger[j].commitId /\ ledger[i].userId = ledger[j].userId) => i = j

\* C1: when vote requests are handled one after another, the ledger never
\* holds two votes of one (item, voter) pair; a request whose pair is in the
\* ledger is answered 400 'Already voted' and leaves the votes file as it was; a
\* request whose pair is not in the ledger is answered with success and the
\* ledger is the old one with exactly one entry, the new vote, added.  (A
\* request that carries no pair, a field missing or empty, is not in scope.)
C1_SequentialVotes ==
    /\ NoDuplicatePairs(LedgerOf(files))
    /\ \A p \in Procs :
          (Answered(p, "votes") /\ ~Falsy(req[p].body, "commitId") /\ ~Falsy(req[p].body, "userId")) =>
            LET before == LedgerOf(loc[p].snap)
                commitId == req[p].body.commitId
                userId == req[p].body.userId
            IN  IF PairInLedger(before, commitId, userId)
                THEN /\ res[p].status = 400
                     /\ res[p].error = "Already voted"
                     /\ files[VOTES_FILE] = loc[p].snap[VOTES_FILE]
                ELSE /\ res[p].status = 200
                     /\ res[p].success
                     /\ Len(LedgerOf(files)) = Len(before) + 1
                     /\ SubSeq(LedgerOf(files), 1, Len(before)) = before
                     /\ LedgerOf(files)[Len(before) + 1].commitId = commitId
                     /\ LedgerOf(files)[Len(before) + 1].userId = userId

\* a vote was recorded, another voter voted for the same item, and a repeated
\* request was then answered 'Already voted'
C1_Witness ==
    \E p \in Procs :
        /\ Answered(p, "votes")
        /\ res[p].error = "Already voted"
        /\ Len(LedgerOf(files)) = 2
        /\ LedgerOf(files)[1].commitId = LedgerOf(files)[2].commitId

\* the sync of handler p got a non-success status for the page it asked last
FetchFailed(p) ==
    /\ req[p].route = "sync"
    /\ loc[p].log # <<>>
    /\ ~loc[p].log[Len(loc[p].log)].response.ok

\* C2: when upstream answers any page of a sync with a non-success status, the
\* sync request is answered with a server error (500) and the items file is
\* what it was when the sync started: nothing of the pages already fetched is
\* written.
C2_FailedSyncWritesNothing ==
    \A p \in Procs :
        FetchFailed(p) =>
            /\ pc[p] = "idle"
            /\ res[p].status = 500
            /\ files[COMMITS_FILE] = loc[p].snap[COMMITS_FILE]

\* page 1 was served with an item that survives the filter, page 2 failed, and
\* an earlier snapshot was on disk
C2_Witness ==
    \E p \in Procs :
        /\ FetchFailed(p)
        /\ Len(loc[p].log) = 2
        /\ loc[p].log[1].response.body = <<Raw1>>
        /\ ItemsOf(files) # <<>>
        /\ res[p].status = 500

RECURSIVE PagesInOrder(_)
\* the bodies of the pages of a log, concatenated in the order of the log
PagesInOrder(log) ==
    IF log = <<>> THEN <<>>
    ELSE PagesInOrder(SubSeq(log, 1, Len(log) - 1)) \o log[Len(log)].response.body

\* the response advertises a "next" relation
AdvertisesNext(response) == response.link.present /\ "next" \in response.link.rels

\* C9: after a successful sync (requests handled one after another) the items
\* document is exactly the normalized result of the upstream fetch, so nothing
\* of the previous snapshot survives unless upstream returned it again, and
\* the count of the response is the number of items persisted.
C9_SyncReplacesSnapshot ==
    \A p \in Procs :
        (Answered(p, "sync") /\ res[p].status = 200) =>
            /\ files[COMMITS_FILE].exists
            /\ JSONparse(files[COMMITS_FILE].text).ok
            /\ ItemsOf(files) = NormalizeCommits(PagesInOrder(loc[p].log))
            /\ res[p].count = Len(ItemsOf(files))

\* a sync succeeded over a snapshot holding an item that upstream did not
\* return again, and persisted at least one item
C9_Witness ==
    \E p \in Procs :
        /\ Answered(p, "sync")
        /\ res[p].status = 200
        /\ res[p].count >= 1
        /\ \E x \in Range(ItemsOf(loc[p].snap)) : x \notin Range(ItemsOf(files))

\* C10: the paginator requests pages 1, 2, 3, ... in order; it requests page
\* n+1 if and only if the response to page n was successful and advertised
\* "next"; when it returns, what it returns is the normalized items of all
\* fetched pages in page order.  So with upstream serving k pages ("next" on
\* pages 1..k-1 only) it issues exactly k requests.
C10_Pagination ==
    \A p \in Procs :
        (req[p].route = "sync" /\ ~Falsy(req[p].body, "token")) =>
            LET log == loc[p].log
                n == Len(log)
            IN  /\ \A i \in 1..n : log[i].page = i
                /\ \A i \in 1..(n - 1) : log[i].response.ok /\ AdvertisesNext(log[i].response)
                /\ n = 0 => (pc[p] = "fetch" /\ loc[p].page = 1)
                /\ n > 0 =>
                     /\ (pc[p] = "fetch") <=> (log[n].response.ok /\ AdvertisesNext(log[n].response))
                     /\ pc[p] = "fetch" => loc[p].page = n + 1
                     /\ (pc[p] # "fetch" /\ log[n].response.ok) =>
                           loc[p].data = NormalizeCommits(PagesInOrder(log))

\* upstream served two pages, "next" on the first only, another Link header on
\* the second: two requests were issued and both pages' items returned
C10_Witness ==
    \E p \in Procs :
        /\ Answered(p, "sync")
        /\ res[p].status = 200
        /\ Len(loc[p].log) = 2
        /\ loc[p].log[2].response.link = LinkPrev
        /\ loc[p].log[1].response.body = <<Raw1>>
        /\ loc[p].log[2].response.body = <<Raw2, Raw3>>
        /\ Len(loc[p].data) = 2

(***************************************************************************)
(* The ranking view.  The list request of handler p read the items         *)
(* document and the ledger that were on disk when it arrived.              *)
(***************************************************************************)
\* handler p has sent a list
Listed(p) == Answered(p, "commits") /\ res[p].status = 200

\* the request had no search term: none given, or the empty string
NoSearchTerm(query) == "search" \notin DOMAIN query \/ query.search = <<>>

\* the permutations of 1..n
Perms(n) == {f \in [1..n -> 1..n] : \A i, j \in 1..n : f[i] = f[j] => i = j}

\* a ranked item is this persisted item with an upvotes count added
IsRanked(ranked, item) ==
    /\ DOMAIN ranked = DOMAIN item \cup {"upvotes"}
    /\ \A k \in DOMAIN item : ranked[k] = item[k]

\* the number of ledger entries for this item id
VotesFor(id, ledger) == Cardinality({i \in 1..Len(ledger) : ledger[i].commitId = id})

\* C5: the list returned without a search term is ordered by upvotes
\* descending, and items with equal upvotes appear in the relative order they
\* have in the persisted items collection.
C5_RankedStable ==
    \A p \in Procs :
        (Listed(p) /\ NoSearchTerm(req[p].query)) =>
            LET items == ItemsOf(loc[p].snap)
                list == res[p].list
            IN  /\ Len(list) = Len(items)
                /\ \E f \in Perms(Len(items)) :
                      /\ \A i \in 1..Len(list) : IsRanked(list[i], items[f[i]])
                      /\ \A i, j \in 1..Len(list) :
                            i < j => \/ list[i].upvotes > list[j].upvotes
                                     \/ list[i].upvotes = list[j].upvotes /\ f[i] < f[j]

\* three items were listed: the second of the collection first, then the first
\* and the third, which tie
C5_Witness ==
    \E p \in Procs :
        /\ Listed(p)
        /\ NoSearchTerm(req[p].query)
        /\ Len(res[p].list) = 3
        /\ IsRanked(res[p].list[1], ItemsOf(loc[p].snap)[2])
        /\ res[p].list[2].upvotes = res[p].list[3].upvotes
        /\ res[p].list[2].id # res[p].list[3].id
        /\ IsRanked(res[p].list[2], ItemsOf(loc[p].snap)[1])

\* C6: the list returned without a search term holds each persisted item
\* exactly once, each with upvotes equal to the number of ledger entries whose
\* item id is the item's id; votes for an id that no item has change no count.
C6_EachItemOnceWithItsCount ==
    \A p \in Procs :
        (Listed(p) /\ NoSearchTerm(req[p].query)) =>
            LET items == ItemsOf(loc[p].snap)
                ledger == LedgerOf(loc[p].snap)
                list == res[p].list
            IN  /\ Len(list) = Len(items)
                /\ \E f \in Perms(Len(items)) :
                      \A i \in 1..Len(list) :
                          /\ IsRanked(list[i], items[f[i]])
                          /\ list[i].upvotes = VotesFor(items[f[i]].id, ledger)

\* the ledger held two votes for a listed item and none for another, or a vote
\* for an id that no item has
C6_Witness ==
    \E p \in Procs :
        /\ Listed(p)
        /\ NoSearchTerm(req[p].query)
        /\ Len(res[p].list) >= 2
        /\ \/ res[p].list[1].upvotes = 2
           \/ /\ res[p].list[1].upvotes = 1
              /\ \E v \in Range(LedgerOf(loc[p].snap)) :
                    \A x \in Range(ItemsOf(loc[p].snap)) : x.id # v.commitId

RECURSIVE IsSubsequence(_, _)
\* a is b with some elements left out
IsSubsequence(a, b) ==
    IF a = <<>> THEN TRUE
    ELSE IF b = <<>> THEN FALSE
    ELSE IF Head(a) = Head(b) THEN IsSubsequence(Tail(a), Tail(b))
    ELSE IsSubsequence(a, Tail(b))

\* the field holds the term, letter case ignored
ContainsTerm(field, term) == includes(toLowerCase(field), toLowerCase(term))

\* the term is in the item's message, author or description (when it has one)
TermInItem(item, term) ==
    \/ ContainsTerm(item.message, term)
    \/ ContainsTerm(item.author, term)
    \/ "description" \in DOMAIN item /\ ContainsTerm(item.description, term)

\* the list() of the documents the request of handler p read
FullList(p) == RankedList(ItemsOf(loc[p].snap), LedgerOf(loc[p].snap), <<>>)

\* C7: for every search term, list(searchTerm) is a subsequence of list(), and
\* every item in it holds the term, letter case ignored, in its message, its
\* author or its description.
C7_SearchSound ==
    \A p \in Procs :
        (Listed(p) /\ "search" \in DOMAIN req[p].query) =>
            /\ IsSubsequence(res[p].list, FullList(p))
            /\ \A x \in Range(res[p].list) : TermInItem(x, req[p].query.search)

\* a search left some items out and kept others
C7_Witness ==
    \E p \in Procs :
        /\ Listed(p)
        /\ "search" \in DOMAIN req[p].query
        /\ req[p].query.search # <<>>
        /\ res[p].list # <<>>
        /\ Len(res[p].list) < Len(FullList(p))

\* how often x occurs in s
Occurrences(s, x) == Cardinality({i \in 1..Len(s) : s[i] = x})

\* C8: for every non-empty search term, every item of list() that holds the
\* term, letter case ignored, in its message, author or description (when
\* present) is in list(searchTerm); with an empty or absent term the full
\* ranked list is returned.
C8_SearchComplete ==
    \A p \in Procs :
        Listed(p) =>
            IF NoSearchTerm(req[p].query)
            THEN res[p].list = FullList(p)
            ELSE \A x \in Range(FullList(p)) :
                    TermInItem(x, req[p].query.search) =>
                        Occurrences(res[p].list, x) = Occurrences(FullList(p), x)

\* an item was found by its author alone, under a term given in another case
C8_Witness ==
    \E p \in Procs :
        /\ Listed(p)
        /\ ~NoSearchTerm(req[p].query)
        /\ \E x \in Range(res[p].list) :
              /\ ~ContainsTerm(x.message, req[p].query.search)
              /\ ContainsTerm(x.author, req[p].query.search)
              /\ ~includes(x.author, req[p].query.search)

(***************************************************************************)
(* Interleaved handlers.                                                   *)
(***************************************************************************)
\* no handler is under way
AllIdle == \A p \in Procs : pc[p] = "idle"

\* C3: votes are append-only under any interleaving of vote, list and sync
\* requests: every vote persisted for a request that was answered with success
\* is still in the ledger.  Stated for the states in which no handler is under
\* way, where a missing vote is lost for good and not hidden by a write that
\* is in progress.
C3_AckedVotesStay ==
    AllIdle => \A v \in acked : v \in Range(LedgerOf(files))

\* C4: a store write is atomic for concurrent readers: a readJsonFile that
\* falls within another handler's writeJsonFile of the same file returns the
\* complete document from before that write or the complete document from
\* after it.
C4_ReadsSeeWholeDocuments ==
    \A p \in Procs : loc[p].rd.overlap => loc[p].rd.atomic

(***************************************************************************)
(* The paginator's normalization.                                          *)
(***************************************************************************)
\* the text begins with the prefix
BeginsWith(text, prefix) ==
    \A i \in 1..Len(prefix) : i <= Len(text) /\ text[i] = prefix[i]

\* the upstream record is neither by the excluded identity nor a merge commit
Remains(raw) ==
    /\ raw.commit.author.name # <<"D","i","s","h","p","i","t">>
    /\ ~BeginsWith(raw.commit.message, <<"M","e","r","g","e">>)

\* the place in raws of the k-th record that remains
PlaceOfRemaining(raws, k) ==
    CHOOSE i \in 1..Len(raws) :
        /\ Remains(raws[i])
        /\ Cardinality({j \in 1..i : Remains(raws[j])}) = k

\* the paginator of handler p has returned
FetchReturned(p) ==
    /\ req[p].route = "sync"
    /\ loc[p].log # <<>>
    /\ pc[p] # "fetch"
    /\ loc[p].log[Len(loc[p].log)].response.ok

\* C11: for every sequence of upstream commit records the paginator returns
\* exactly the records whose author name is not 'Dishpit' and whose message
\* does not begin with 'Merge', one item per remaining record, in upstream
\* order, with id = sha and message, author name, author date and link copied.
C11_Normalization ==
    \A p \in Procs :
        FetchReturned(p) =>
            LET raws == PagesInOrder(loc[p].log)
                items == loc[p].data
            IN  /\ Len(items) = Cardinality({i \in 1..Len(raws) : Remains(raws[i])})
                /\ \A k \in 1..Len(items) :
                      LET raw == raws[PlaceOfRemaining(raws, k)]
                      IN  /\ DOMAIN items[k] = {"id", "message", "author", "date", "link"}
                          /\ items[k].id = raw.sha
                          /\ items[k].message = raw.commit.message
                          /\ items[k].author = raw.commit.author.name
                          /\ items[k].date = raw.commit.author.date
                          /\ items[k].link = raw.html_url

\* two pages held a commit by 'Dishpit', a 'Merge ...' commit and a commit whose
\* message is 'merge' in lower case: the last and one more were returned
C11_Witness ==
    \E p \in Procs :
        /\ FetchReturned(p)
        /\ PagesInOrder(loc[p].log) = <<Raw2, Raw3, Raw4, Raw1>>
        /\ Len(loc[p].data) = 2
        /\ loc[p].data[1].id = "c2"
        /\ loc[p].data[2].id = "c1"

(***************************************************************************)
(* The store.                                                              *)
(***************************************************************************)
\* handler p has had a document back from readJsonFile of file f, and that is
\* the last thing it did with the store
HasRead(p, f) ==
    /\ req[p].route \in {"votes", "commits"}
    /\ loc[p].file = f
    /\ \/ pc[p] = "idle" /\ res[p].status # 0 /\ res[p].error # "Missing required fields"
       \/ pc[p] = "writeOpen"

\* C12: a write of a document X followed by a read of the same key, with no
\* other write to that key in between, returns a document equal to X.
C12_RoundTrip ==
    \A p \in Procs :
        loc[p].rd.wrote.has => loc[p].rd.value = loc[p].rd.wrote.doc

\* a ledger of two votes was written and the next request read it back
C12_Witness ==
    \E p \in Procs :
        /\ HasRead(p, VOTES_FILE)
        /\ loc[p].rd.wrote.has
        /\ Len(loc[p].rd.wrote.doc) = 2
        /\ loc[p].rd.value = loc[p].rd.wrote.doc

\* the text is that of a complete array
IsArrayText(text) ==
    /\ Len(text) >= 2
    /\ text[1].t = "["
    /\ text[Len(text)].t = "]"
    /\ \A i \in 2..(Len(text) - 1) : text[i].t = "{}"

\* the file is absent, or what it holds cannot be decoded
Unreadable(file) == ~file.exists \/ ~IsArrayText(file.text)

\* a file holding the text of the default, []
SeededFile == [exists |-> TRUE, text |-> <<[t |-> "["], [t |-> "]"]>>]

\* the list handler p has had the items document back from readJsonFile
ItemsRead(p) ==
    /\ req[p].route = "commits"
    /\ loc[p].file = VOTES_FILE

\* C13: a read of a key that was never written, or whose document cannot be
\* decoded, returns the default [] and leaves the default persisted under the
\* key, so that the next read returns the same default.
C13_ReadSeedsDefault ==
    \A p \in Procs :
        /\ (ItemsRead(p) /\ Unreadable(loc[p].snap[COMMITS_FILE])) =>
               /\ loc[p].commits = <<>>
               /\ files[COMMITS_FILE] = SeededFile
        /\ (Listed(p) /\ Unreadable(loc[p].snap[VOTES_FILE])) =>
               /\ loc[p].rd.value = <<>>
               /\ files[VOTES_FILE] = SeededFile
        /\ (ItemsRead(p) /\ loc[p].snap[COMMITS_FILE] = SeededFile) =>
               loc[p].commits = <<>>
        /\ (Listed(p) /\ loc[p].snap[VOTES_FILE] = SeededFile) =>
               loc[p].rd.value = <<>>

\* a list request found the items file broken and the ledger absent: both now
\* hold [] and the answer is the empty list
C13_Witness ==
    \E p \in Procs :
        /\ Listed(p)
        /\ loc[p].snap[COMMITS_FILE].exists
        /\ Unreadable(loc[p].snap[COMMITS_FILE])
        /\ ~loc[p].snap[VOTES_FILE].exists
        /\ files[COMMITS_FILE] = SeededFile
        /\ files[VOTES_FILE] = SeededFile
        /\ res[p].list = <<>>

\* C14: handling a list request leaves both persisted documents exactly as
\* they were before the request, in every state of the store, an absent or
\* undecodable document included.
C14_ListLeavesStore ==
    \A p \in Procs : Listed(p) => files = loc[p].snap

\* C14 as the code has it: a list request leaves every document that exists
\* and can be decoded exactly as it was; a document that is absent or cannot be
\* decoded is replaced by the default [].
C14_ListOnlySeeds ==
    \A p \in Procs :
        Listed(p) =>
            \A f \in FileNames :
                IF Unreadable(loc[p].snap[f])
                THEN files[f] = SeededFile
                ELSE files[f] = loc[p].snap[f]

\* a list request over two items and a ledger of one vote left both files as
\* they were
C14_Witness ==
    \E p \in Procs :
        /\ Listed(p)
        /\ Len(res[p].list) = 2
        /\ Len(LedgerOf(loc[p].snap)) = 1
        /\ ~Unreadable(loc[p].snap[VOTES_FILE])
        /\ files = loc[p].snap

(***************************************************************************)
(* Requests refused by validation.                                         *)
(***************************************************************************)
\* the body has no such field, or has the empty string there
MissingOrEmpty(body, field) == field \notin DOMAIN body \/ body[field] = ""

\* the request that enters handler p in this step
Enters(p) == pc[p] = "idle" /\ started' = started + 1 /\ req'[p] # req[p]

\* the step is the whole of the request: the handler has answered without
\* waiting for a file or for upstream, and no file has changed
AnsweredAtOnce(p, status, error) ==
    /\ pc'[p] = "idle"
    /\ res'[p].status = status
    /\ res'[p].error = error
    /\ loc'[p].log = <<>>
    /\ files' = files

VoteRefusedAtOnce ==
    \A p \in Procs :
        (/\ Enters(p)
         /\ req'[p].route = "votes"
         /\ MissingOrEmpty(req'[p].body, "commitId") \/ MissingOrEmpty(req'[p].body, "userId"))
            => AnsweredAtOnce(p, 400, "Missing required fields")

SyncRefusedAtOnce ==
    \A p \in Procs :
        (/\ Enters(p)
         /\ req'[p].route = "sync"
         /\ MissingOrEmpty(req'[p].body, "token"))
            => AnsweredAtOnce(p, 401, "No token provided")

\* C15: a vote request whose item id or voter id is missing or empty is
\* answered 400 'Missing required fields' in the step it arrives in, without
\* a read or a write of the ledger; a sync request without a token is answered
\* 401 in the step it arrives in, without a request to upstream and without
\* touching the items document.
C15_RefusedBeforeAnyIO == [][VoteRefusedAtOnce /\ SyncRefusedAtOnce]_vars

\* a vote for c1 with an empty voter id, the third request served, has been
\* refused, and no file exists
C15_Witness ==
    \E p \in Procs :
        /\ pc[p] = "idle"
        /\ started = 3
        /\ \A f \in FileNames : ~files[f].exists
        /\ req[p].route = "votes"
        /\ req[p].body = [commitId |-> "c1", userId |-> ""]
        /\ res[p] = [NoResponse EXCEPT !.status = 400, !.error = "Missing required fields"]

(***************************************************************************)
(* Uniqueness in the persisted documents.                                  *)
(***************************************************************************)
\* C16: in every reachable state, interleavings of two or more vote handlers
\* at their file reads and writes included, the persisted ledger holds at most
\* one vote of any (itemId, voterId) pair.
C16_OneVotePerPair ==
    /\ NoDuplicatePairs(LedgerOf(files))
    /\ \A p \in Procs : req[p].route = "votes" => NoDuplicatePairs(loc[p].data)

\* two handlers served the same pair at once and both answered success: the
\* ledger holds the pair once
C16_Witness ==
    \E p, q \in Procs :
        /\ p # q
        /\ AllIdle
        /\ req[p].route = "votes" /\ req[q].route = "votes"
        /\ req[p].body = req[q].body
        /\ res[p] = VoteRecorded /\ res[q] = VoteRecorded
        /\ Len(LedgerOf(files)) = 1
        /\ PairInLedger(LedgerOf(files), req[p].body.commitId, req[p].body.userId)

\* C17: in every reachable state, after any sequence of syncs against any
\* upstream, one whose pages overlap or repeat a record included, no two
\* items of the persisted items collection have the same id.
C17_UniqueItemIds ==
    \A i, j \in 1..Len(ItemsOf(files)) :
        ItemsOf(files)[i].id = ItemsOf(files)[j].id => i = j

(***************************************************************************)
(* Termination of a sync.                                                  *)
(***************************************************************************)
\* handler p is serving, or has served, a sync request that carried a token
SyncStarted(p) == req[p].route = "sync" /\ ~MissingOrEmpty(req[p].body, "token")

\* every page upstream has answered to this sync so far was a success that
\* advertised "next"
ToldNextThroughout(p) ==
    /\ SyncStarted(p)
    /\ \A i \in 1..Len(loc[p].log) :
          loc[p].log[i].response.ok /\ AdvertisesNext(loc[p].log[i].response)

\* the sync has ended: success after writeJsonFile returned, or failure
SyncOver(p) ==
    /\ SyncStarted(p)
    /\ pc[p] = "idle"
    /\ \/ res[p].status = 200 /\ res[p].success /\ loc[p].file = COMMITS_FILE
       \/ res[p].status = 500 /\ loc[p].file = ""

\* C18: every sync that has started ends, by persisting the snapshot and
\* answering success or by answering failure, unless upstream has advertised
\* "next" on every page it answered (followed here for MaxPages pages); and as
\* long as upstream has advertised "next" on every page, the sync is still
\* fetching, has answered nothing and has not called writeJsonFile.
C18_SyncEnds ==
    /\ \A p \in Procs :
          (SyncStarted(p) /\ pc[p] # "idle")
              ~> (SyncOver(p) \/ (ToldNextThroughout(p) /\ Len(loc[p].log) = MaxPages))
    /\ [](\A p \in Procs :
            (SyncStarted(p) /\ pc[p] = "idle") => SyncOver(p))
    /\ [](\A p \in Procs :
            ToldNextThroughout(p) =>
                /\ pc[p] = "fetch"
                /\ res[p] = NoResponse
                /\ loc[p].file = ""
                /\ loc[p].page = Len(loc[p].log) + 1)

\* one sync has ended with success after two pages while another has been told
\* "next" on every page and is still fetching
C18_Witness ==
    \E p, q \in Procs :
        /\ SyncOver(p)
        /\ res[p].status = 200
        /\ Len(loc[p].log) = 2
        /\ ToldNextThroughout(q)
        /\ Len(loc[q].log) = MaxPages
        /\ pc[q] = "fetch"

(***************************************************************************)
(* Rate limiting.                                                          *)
(***************************************************************************)
\* a request from a client enters handler p in this step
Arrives(p) ==
    /\ pc[p] = "idle"
    /\ started' = started + 1
    /\ req'[p].route # "none"
    /\ origin'[p].ip \in Origins

\* the limiter covers the route: the general one every route, the other two
\* their own
Covers(l, route) == l = "global" \/ l = route

\* the step is the whole of the request: it is answered 429, the handler of
\* the route has not run, no file has changed, nothing was fetched
RejectedAtOnce(p) ==
    /\ pc'[p] = "idle"
    /\ res'[p].status = 429
    /\ loc'[p].log = <<>>
    /\ files' = files

\* C19: for each limiter and each client, once the client has sent 100
\* requests to routes the limiter covers within the limiter's current window,
\* whatever their outcome, every further request of the client to such a
\* route in that window is answered 429 before any handler runs.
C19_CapOnRequestsSent ==
    [][\A p \in Procs, l \in Limiters :
           (/\ Arrives(p)
            /\ Covers(l, req'[p].route)
            /\ sent[l][origin'[p].ip] >= 100)
               => RejectedAtOnce(p)]_vars

\* C19 as the code has it.  The general limiter counts the requests answered
\* with a status below 400; the vote and the sync limiter count the requests to
\* their route that the general limiter let through.  Once a limiter has
\* counted 100 requests of a client in its window, every further request of the
\* client to a route it covers is answered 429 before any handler runs, by the
\* general limiter first; and nothing else is answered 429, so the clients do
\* not count against each other, nor do the vote and sync routes.
C19_CapOnRequestsCounted ==
    [][\A p \in Procs :
           Arrives(p) =>
               LET ip == origin'[p].ip
                   route == req'[p].route
                   generalFull == good[ip] >= 100
                   routeFull == /\ route \in {"votes", "sync"}
                                /\ sent[route][ip] - blocked[route][ip] >= 100
               IN  /\ (generalFull \/ routeFull) => RejectedAtOnce(p)
                   /\ generalFull =>
                         res'[p].error = "Too many requests, please try again later."
                   /\ res'[p].status = 429 => (generalFull \/ routeFull)]_vars

\* a client whose 100 earlier votes in the window include one refused for a
\* missing field has its next vote rejected by the vote limiter, the general
\* limiter having counted fewer than 100 of its requests
C19_Witness ==
    \E p \in Procs :
        /\ pc[p] = "idle"
        /\ req[p].route = "votes"
        /\ res[p] = [NoResponse EXCEPT !.status = 429,
                                       !.error = "Vote limit exceeded, please try again later."]
        /\ sent["votes"][origin[p].ip] = 101
        /\ blocked["votes"][origin[p].ip] = 0
        /\ good[origin[p].ip] = 99
        /\ sent["global"][origin[p].ip] = 101

(***************************************************************************)
(* The log.                                                                *)
(***************************************************************************)
\* the n-th entry passed to log() is in the buffer, or in a file written
EntryKept(n) ==
    \/ \E i \in 1..Len(logs) : logs[i][1].n = n
    \/ \E file \in logFiles :
          \E i \in 1..Len(file) : file[i].t = "{}" /\ file[i].n = n

\* C20: under any interleaving of log() calls with a running saveLogs, every
\* entry passed to log() is, once saveLogs has finished, in a written log file
\* or still in the buffer.
C20_NoEntryLost ==
    saving.at = "idle" => \A n \in 1..logged : EntryKept(n)

====
